---- MODULE Spec2Model ----
(***************************************************************************)
(* A model of the multi-backend MCP chat client: the tool registry         *)
(* (tool_manager.py: ToolManager) and the client that connects the         *)
(* backends, runs the agentic tool-call loop and tears the sessions down   *)
(* (client.py: MultiMCPClient, main).                                      *)
(*                                                                         *)
(* Strings whose characters matter (namespace prefixes, tool names and     *)
(* the prefixed names built from them) are sequences of one-character      *)
(* strings, so that concatenation and endswith are computed as Python      *)
(* computes them.                                                          *)
(***************************************************************************)
EXTENDS Naturals, Sequences, FiniteSets

VARIABLES
    tool_definitions_for_claude, \* ToolManager._tool_definitions_for_claude
    tool_mapping,                \* ToolManager._tool_mapping
    registered,                  \* history: the add_session calls made so far
    exit_stack,                  \* MultiMCPClient.exit_stack: the contexts entered, oldest first
    sessions,                    \* MultiMCPClient.sessions
    connected,                   \* MultiMCPClient.connected
    pc,                          \* where main() stands
    github_connected,            \* connect_to_servers: local, "unset" before the attempt
    actions_connected,           \* connect_to_servers: local, "unset" before the attempt
    raised,                      \* the exception leaving main's try block, or "none"
    messages,                    \* process_query: local
    response,                    \* process_query: local
    block,                       \* process_query: the index of the next content block
    assistant_messages_so_far,   \* process_query: local
    tool_results_for_claude,     \* process_query: local
    response_text,               \* chat_loop: what process_query returned last
    acquired,                    \* history: every context entered, in order
    catalogs,                    \* history: what list_tools returned, per prefix
    calls,                       \* history: the call_tool calls of this round
    last_request,                \* history: the latest request sent to the model API
    n_requests,                  \* history: the requests of this query sent to the model API
    api_error,                   \* history: what the latest request raised, or "none"
    in_flight,                   \* the call_tool calls awaited and not yet completed
    earlier_turns,               \* history: the user turn of the query answered last
    release_log,                 \* history: the contexts exited by cleanup, in order
    release_failed,              \* aclose: an exit raised and nothing suppressed it
    cleanup_runs                 \* history: the calls of cleanup

regvars == <<tool_definitions_for_claude, tool_mapping, registered>>

clientvars == <<exit_stack, sessions, connected, acquired, catalogs>>

mainvars == <<pc, github_connected, actions_connected, raised>>

queryvars == <<messages, response, block, assistant_messages_so_far,
               tool_results_for_claude, response_text, calls, last_request, n_requests,
               api_error, in_flight, earlier_turns>>

cleanupvars == <<release_log, release_failed, cleanup_runs>>

vars == <<regvars, clientvars, mainvars, queryvars, cleanupvars>>

(***************************************************************************)
(* Strings.                                                                *)
(***************************************************************************)
github == <<"g", "i", "t", "h", "u", "b">>
actions == <<"a", "c", "t", "i", "o", "n", "s">>

\* str.endswith(c) for a one-character c
EndsWith(s, c) == Len(s) > 0 /\ s[Len(s)] = c

\* s[:-1]
DropLast(s) == SubSeq(s, 1, Len(s) - 1)

\* str.upper() on the characters the model's prefixes are written with
UpperChar(c) ==
    CASE c = "a" -> "A" [] c = "b" -> "B" [] c = "c" -> "C" [] c = "g" -> "G"
      [] c = "h" -> "H" [] c = "i" -> "I" [] c = "n" -> "N" [] c = "o" -> "O"
      [] c = "s" -> "S" [] c = "t" -> "T" [] c = "u" -> "U" [] OTHER -> c

Upper(s) == [k \in 1..Len(s) |-> UpperChar(s[k])]

(***************************************************************************)
(* The tool registry.                                                      *)
(***************************************************************************)
\* The absent value of dict.get (None).
NotFound == <<>>

\* tool_manager.py 31-32: the prefix ends with an underscore
NormalizePrefix(session_prefix) ==
    IF EndsWith(session_prefix, "_") THEN session_prefix
    ELSE session_prefix \o <<"_">>

\* tool_manager.py 39
PrefixedName(session_prefix, tool) == NormalizePrefix(session_prefix) \o tool.name

\* Variant: the catalog entry carries the tool's original name.
ToolDefinitionUnprefixed(session_prefix, tool) ==
    [name |-> tool.name,
     description |-> <<Upper(DropLast(NormalizePrefix(session_prefix))), tool.description>>,
     input_schema |-> tool.inputSchema]

\* tool_manager.py 44-48: the entry of the catalog sent to the model
ToolDefinition(session_prefix, tool) ==
    [name |-> PrefixedName(session_prefix, tool),
     description |-> <<Upper(DropLast(NormalizePrefix(session_prefix))), tool.description>>,
     input_schema |-> tool.inputSchema]

\* Variant: a key already in the dict keeps its value (dict.setdefault).
DictSetKeepsFirst(m, k, v) ==
    [x \in (DOMAIN m) \cup {k} |-> IF x \in DOMAIN m THEN m[x] ELSE v]

\* dict assignment m[k] = v
DictSet(m, k, v) == [x \in (DOMAIN m) \cup {k} |-> IF x = k THEN v ELSE m[x]]

\* tool_manager.py 38-52: the loop over the tools, on the reverse mapping
RECURSIVE MappingAfter(_, _, _, _)
MappingAfter(m, session_prefix, session, tools) ==
    IF tools = <<>> THEN m
    ELSE MappingAfter(DictSet(m, PrefixedName(session_prefix, Head(tools)),
                              <<Head(tools).name, session>>),
                      session_prefix, session, Tail(tools))

\* Variant: the new entries are put in front of the catalog.
DefinitionsInFront(defs, session_prefix, tools) ==
    [k \in 1..Len(tools) |-> ToolDefinition(session_prefix, tools[k])] \o defs

\* tool_manager.py 38-48: the loop over the tools, on the catalog
DefinitionsAfter(defs, session_prefix, tools) ==
    defs \o [k \in 1..Len(tools) |-> ToolDefinition(session_prefix, tools[k])]

\* tool_manager.py 22-52
add_session(session_prefix, session, tools) ==
    /\ tool_definitions_for_claude' =
           DefinitionsAfter(tool_definitions_for_claude, session_prefix, tools)
    /\ tool_mapping' = MappingAfter(tool_mapping, session_prefix, session, tools)
    /\ registered' = Append(registered,
           [prefix |-> session_prefix, session |-> session, tools |-> tools])

\* Variant: the catalog is handed out without its first entry.
get_all_tools_but_the_first ==
    SubSeq(tool_definitions_for_claude, 2, Len(tool_definitions_for_claude))

\* tool_manager.py 54-56
get_all_tools_for_claude == tool_definitions_for_claude

\* tool_manager.py 58-69
get_tool_call_details(prefixed_tool_name) ==
    IF prefixed_tool_name \in DOMAIN tool_mapping
    THEN tool_mapping[prefixed_tool_name] ELSE NotFound

\* tool_manager.py 71-74
get_available_tool_names == DOMAIN tool_mapping

(***************************************************************************)
(* The inputs of the registry: tools as a backend advertises them.         *)
(***************************************************************************)
Tool(name) == [name |-> name, description |-> "description", inputSchema |-> "schema"]

list_repos == Tool(<<"x">>)
b_list_repos == Tool(<<"b", "_", "x">>)

ToolLists ==
    {<<>>, <<list_repos>>, <<b_list_repos>>, <<list_repos, b_list_repos>>,
     <<b_list_repos, list_repos>>}

\* The session objects a caller may hand to add_session.
SessionHandle(prefix) == <<"ClientSession", prefix>>

Sessions == {SessionHandle(github), SessionHandle(actions)}

\* Prefixes a caller of the registry may use.
Prefixes == {<<"a">>, <<"a", "_">>, <<"a", "_", "b">>, <<"b">>}

MaxRegistrations == 2

(***************************************************************************)
(* The registry as an object of its own: any caller, any registrations.    *)
(***************************************************************************)
\* tool_manager.py 14-19
RegistryInit ==
    /\ tool_definitions_for_claude = <<>>
    /\ tool_mapping = <<>>
    /\ registered = <<>>

(***************************************************************************)
(* The backends and the model API: what the client's collaborators may do. *)
(***************************************************************************)
MaxBlocks == 2

MaxMessages == 4

\* What list_tools of a backend may return.
ListToolsResults == {<<>>, <<list_repos>>, <<list_repos, b_list_repos>>}

\* Where an attempt to connect may raise (client.py 57, 61, 65, 73), or "ok".
ConnectFailures == {"stdio_client", "ClientSession", "initialize", "list_tools"}

ConnectOutcomes == ConnectFailures \cup {"ok"}

\* The two contexts an attempt enters on the exit stack (client.py 57, 61).
Transport(prefix) == [kind |-> "stdio_client", prefix |-> prefix]

Session(prefix) == [kind |-> "ClientSession", prefix |-> prefix]

\* Content blocks of a model response.
TextBlock(text) == [type |-> "text", text |-> text]

ToolUseBlock(name, input, id) == [type |-> "tool_use", name |-> name, input |-> input, id |-> id]

hallucinated == <<"n", "o", "p", "e">>

\* The tool requests of the model: ids are the model's, unique within a response.
ToolUseBlocks ==
    {ToolUseBlock(PrefixedName(github, list_repos), [owner |-> "a"], "call_1"),
     ToolUseBlock(PrefixedName(actions, list_repos), [owner |-> "b"], "call_2"),
     ToolUseBlock(hallucinated, [owner |-> "c"], "call_3")}

RoundTexts == {<<"o", "k">>}

FinalTexts == {<<"o", "k">>, <<" ">>}

SeqsUpTo(S, n) == UNION {[1..k -> S] : k \in 0..n}

ToolUseIndexes(content) == {k \in 1..Len(content) : content[k].type = "tool_use"}

\* A response that asks for tools: at least one request, no id twice.
ToolUseContents ==
    {c \in SeqsUpTo(ToolUseBlocks \cup {TextBlock(t) : t \in RoundTexts}, MaxBlocks) :
        /\ ToolUseIndexes(c) # {}
        /\ \A j, k \in ToolUseIndexes(c) : c[j].id = c[k].id => j = k}

FinalContents == SeqsUpTo({TextBlock(t) : t \in FinalTexts}, MaxBlocks)

\* What messages.create may do when the history sent has n turns: raise, or
\* return a response. The model asks for tools only while the history has room.
ModelReplies(n) ==
    {[kind |-> "raises", error |-> "overloaded"]}
    \cup {[kind |-> "returns", response |-> [stop_reason |-> "end_turn", content |-> c]] :
            c \in FinalContents}
    \cup {[kind |-> "returns", response |-> [stop_reason |-> "tool_use", content |-> c]] :
            c \in {d \in ToolUseContents : n + 1 + Cardinality(ToolUseIndexes(d)) <= MaxMessages}}

\* What call_tool may do: raise, or return a response whose content is of a
\* basic type or not, and whose str() works or raises.
ToolOutcomes ==
    {[kind |-> "raises", error |-> "timeout"]}
    \cup {[kind |-> "returns", content |-> [type |-> t, printable |-> p, value |-> "repo-a"]] :
            t \in {"list", "object"}, p \in BOOLEAN}

\* client.py 215: isinstance(content, (dict, list, str, int, float, bool)) or content is None
BasicTypes == {"dict", "list", "str", "int", "float", "bool", "NoneType"}

\* str(content), where it does not raise
Str(content) == [type |-> "str", printable |-> TRUE, value |-> <<"str", content.value>>]

UserInputs == {"quit", "exit", "", "KeyboardInterrupt", "EOFError", "list repos"}

NoResponse == [stop_reason |-> "none", content |-> <<>>]

NoRequest == [messages |-> <<>>, tools |-> <<>>]

NoAnswer == <<"none">>

(***************************************************************************)
(* MultiMCPClient.                                                         *)
(***************************************************************************)
\* client.py 25-50: the client as constructed, at the start of main
Init ==
    /\ RegistryInit
    /\ exit_stack = <<>>
    /\ sessions = <<>>
    /\ connected = FALSE
    /\ pc = "connect_github"
    /\ github_connected = "unset"
    /\ actions_connected = "unset"
    /\ raised = "none"
    /\ messages = <<>>
    /\ response = NoResponse
    /\ block = 0
    /\ assistant_messages_so_far = <<>>
    /\ tool_results_for_claude = <<>>
    /\ response_text = NoAnswer
    /\ acquired = <<>>
    /\ catalogs = <<>>
    /\ calls = <<>>
    /\ last_request = NoRequest
    /\ n_requests = 0
    /\ api_error = "none"
    /\ in_flight = <<>>
    /\ earlier_turns = <<>>
    /\ release_log = <<>>
    /\ release_failed = FALSE
    /\ cleanup_runs = 0

\* client.py 57-61: the contexts entered before the attempt ends
EnteredContexts(prefix, outcome) ==
    CASE outcome = "stdio_client" -> <<>>
      [] outcome = "ClientSession" -> <<Transport(prefix)>>
      [] OTHER -> <<Transport(prefix), Session(prefix)>>

\* client.py 79, 87, 111: what the attempt returns
ConnectResult(outcome) == IF outcome = "ok" THEN "True" ELSE "False"

\* client.py 52-111
connect_single_server(prefix, outcome, tools) ==
    /\ exit_stack' = exit_stack \o EnteredContexts(prefix, outcome)
    /\ acquired' = acquired \o EnteredContexts(prefix, outcome)
    /\ IF outcome = "ok"
       THEN /\ catalogs' = DictSet(catalogs, prefix, tools)
            /\ sessions' = DictSet(sessions, prefix, SessionHandle(prefix))
            /\ IF tools # <<>>
               THEN add_session(prefix, SessionHandle(prefix), tools)
               ELSE UNCHANGED regvars
       ELSE UNCHANGED <<catalogs, sessions, regvars>>

\* Variant: a failed first attempt ends the connect phase.
AfterGithubAttemptStopsOnFailure(result) ==
    IF result = "False" THEN "connect_summary" ELSE "connect_actions"

\* client.py 119-123: the second attempt follows the first, whatever it returned
AfterGithubAttempt(result) == "connect_actions"

\* client.py 117-119
ConnectGithub ==
    /\ pc = "connect_github"
    /\ \E outcome \in ConnectOutcomes, tools \in ListToolsResults :
           /\ connect_single_server(github, outcome, tools)
           /\ github_connected' = ConnectResult(outcome)
           /\ pc' = AfterGithubAttempt(ConnectResult(outcome))
    /\ UNCHANGED <<connected, actions_connected, raised, queryvars, cleanupvars>>

\* client.py 121-123
ConnectActions ==
    /\ pc = "connect_actions"
    /\ \E outcome \in ConnectOutcomes, tools \in ListToolsResults :
           /\ connect_single_server(actions, outcome, tools)
           /\ actions_connected' = ConnectResult(outcome)
    /\ pc' = "connect_summary"
    /\ UNCHANGED <<connected, github_connected, raised, queryvars, cleanupvars>>

\* Variant: the check for an empty session record never fires.
NoSessionsNever == FALSE

\* Variant: tools are mandatory, the check is on the registry.
NoToolsRegistered == DOMAIN tool_mapping = {}

\* client.py 131: not self.sessions

NoSessions == DOMAIN sessions = {}

\* Variant: sys.exit ends the process on the spot.
AfterSysExitNoFinally == "exited"

\* client.py 134, main 363-381: sys.exit raises SystemExit, which no except
\* clause of main catches and which leaves the try block through its finally
AfterSysExit == "finally"

\* client.py 125-147, then main 364-373: sys.exit(1) leaves main's try block
\* through its finally; otherwise the client is connected and main enters
\* chat_loop (301-314)
ConnectSummary ==
    /\ pc = "connect_summary"
    /\ IF NoSessions
       THEN /\ raised' = "SystemExit"
            /\ pc' = AfterSysExit
            /\ UNCHANGED connected
       ELSE /\ connected' = TRUE
            /\ pc' = "chat_loop"
            /\ UNCHANGED raised
    /\ UNCHANGED <<regvars, exit_stack, sessions, acquired, catalogs,
                   github_connected, actions_connected, queryvars, cleanupvars>>

(***************************************************************************)
(* process_query.                                                          *)
(***************************************************************************)
Whitespace == {" ", "\n"}

\* str.strip()
RECURSIVE LStrip(_)
LStrip(s) == IF s # <<>> /\ Head(s) \in Whitespace THEN LStrip(Tail(s)) ELSE s

RECURSIVE RStrip(_)
RStrip(s) == IF s # <<>> /\ s[Len(s)] \in Whitespace THEN RStrip(DropLast(s)) ELSE s

Strip(s) == RStrip(LStrip(s))

\* Variant: the parts are put together with nothing between them.
RECURSIVE JoinWithoutSeparator(_, _)
JoinWithoutSeparator(sep, parts) ==
    IF parts = <<>> THEN <<>> ELSE parts[1] \o JoinWithoutSeparator(sep, Tail(parts))

\* sep.join(parts)
RECURSIVE Join(_, _)
Join(sep, parts) ==
    IF parts = <<>> THEN <<>>
    ELSE IF Len(parts) = 1 THEN parts[1]
    ELSE parts[1] \o sep \o Join(sep, Tail(parts))

IsText(content_block) == content_block.type = "text"

\* client.py 278-284
FinalTextParts(content) ==
    LET texts == SelectSeq(content, IsText)
    IN  [k \in 1..Len(texts) |-> texts[k].text]

\* client.py 291: "Claude did not provide a final text response."
NoFinalText ==
    <<"C", "l", "a", "u", "d", "e", " ", "d", "i", "d", " ", "n", "o", "t",
      " ", "p", "r", "o", "v", "i", "d", "e", " ", "a", " ", "f", "i", "n",
      "a", "l", " ", "t", "e", "x", "t", " ", "r", "e", "s", "p", "o", "n",
      "s", "e", ".">>

\* client.py 290-291
FinalResponse(content) ==
    LET final_response == Strip(Join(<<"\n">>, FinalTextParts(content)))
    IN  IF final_response # <<>> THEN <<"answer", final_response>>
        ELSE <<"answer", NoFinalText>>

\* client.py 166-168
UserMessage(query) == [role |-> "user", content |-> query]

\* client.py 264
AssistantMessage(content) == [role |-> "assistant", content |-> content]

\* client.py 239-247, 252-260
ToolResultMessage(tool_use_id, content, is_error) ==
    [role |-> "user",
     content |-> <<[type |-> "tool_result", tool_use_id |-> tool_use_id,
                    content |-> content, is_error |-> is_error]>>]

ErrorText(parts) == [type |-> "str", printable |-> TRUE, value |-> parts]

\* Variant: the error result names the tool but drops str(error).
ToolCallErrorWithoutDescription(prefixed_tool_name, error) ==
    [content |-> ErrorText(<<"Error executing tool '", prefixed_tool_name, "'">>),
     is_error |-> TRUE]

\* client.py 231-236
ToolCallError(prefixed_tool_name, error) ==
    [content |-> ErrorText(<<"Error executing tool '", prefixed_tool_name, "': ", error>>),
     is_error |-> TRUE]

\* client.py 209-236: the result of a call_tool that returned or raised
ToolCallResult(outcome, prefixed_tool_name) ==
    IF outcome.kind = "raises" THEN ToolCallError(prefixed_tool_name, outcome.error)
    ELSE IF outcome.content.type \in BasicTypes
    THEN \* 216, then the preview of 228, whose str() may raise into 231
         IF outcome.content.printable
         THEN [content |-> outcome.content, is_error |-> FALSE]
         ELSE ToolCallError(prefixed_tool_name, "__str__ raised")
    ELSE \* 219-225
         IF outcome.content.printable
         THEN [content |-> Str(outcome.content), is_error |-> FALSE]
         ELSE [content |-> ErrorText(<<"Error: Result object of type ", outcome.content.type,
                                       " could not be serialized.">>),
               is_error |-> TRUE]

\* Variant: the result for an unknown tool is not marked as an error.
UnknownToolResultNotAnError(content_block) ==
    ToolResultMessage(content_block.id,
        ErrorText(<<"Client error: Tool '", content_block.name,
                    "' is not recognized or available.">>),
        FALSE)

\* client.py 249-260
UnknownToolResult(content_block) ==
    ToolResultMessage(content_block.id,
        ErrorText(<<"Client error: Tool '", content_block.name,
                    "' is not recognized or available.">>),
        TRUE)

\* Variant: the backend is called with the prefixed name the model used.
ToolCallWithPrefixedName(tool_details, content_block) ==
    [session |-> tool_details[2], name |-> content_block.name,
     arguments |-> content_block.input]

\* client.py 205, 212: target_session.call_tool(original_tool_name, tool_input)
ToolCall(tool_details, content_block) ==
    [session |-> tool_details[2], name |-> tool_details[1],
     arguments |-> content_block.input]

\* Variant: the round's turns are put in front of the history.
RoundMessagesInFront ==
    <<AssistantMessage(assistant_messages_so_far)>> \o tool_results_for_claude \o messages

\* Variant: only the last tool-result of the round is appended.
RoundMessagesLastResultOnly ==
    messages \o <<AssistantMessage(assistant_messages_so_far)>>
    \o SubSeq(tool_results_for_claude, Len(tool_results_for_claude),
              Len(tool_results_for_claude))

\* client.py 264-266
RoundMessages ==
    messages \o <<AssistantMessage(assistant_messages_so_far)>> \o tool_results_for_claude

\* Variant: a response that holds text ends the loop, tool requests or not.
LoopGoesOnWithoutText(model_response, n) ==
    /\ model_response.stop_reason = "tool_use"
    /\ \A k \in 1..Len(model_response.content) : model_response.content[k].type # "text"

\* client.py 180: while response.stop_reason == "tool_use"; n is the number
\* of the request that was answered, which the condition does not look at
LoopGoesOn(model_response, n) == model_response.stop_reason = "tool_use"

\* Variant: only the requests after the first are made inside the try block.
InTryBlockAfterFirst(n) == n > 1

\* client.py 170-297: the try block of process_query holds the first request
\* (172) and the later ones (269); n is the number of the request in the query
InTryBlock(n) == TRUE

\* client.py 172-177 and 269-274, then 180 and 277-297: the request with the
\* history msgs, and where its reply takes process_query. An exception raised
\* outside the try block would leave process_query without an answer and be
\* caught by chat_loop (338-342).
AfterModelCall(msgs, reply) ==
    /\ messages' = msgs
    /\ last_request' = [messages |-> msgs, tools |-> get_all_tools_for_claude]
    /\ n_requests' = n_requests + 1
    /\ api_error' = IF reply.kind = "raises" THEN reply.error ELSE "none"
    /\ IF reply.kind = "raises"
       THEN /\ response_text' = IF InTryBlock(n_requests + 1)
                                THEN <<"error", reply.error>>
                                ELSE response_text
            /\ pc' = "return"
            /\ UNCHANGED <<response, block, assistant_messages_so_far,
                           tool_results_for_claude, calls>>
       ELSE IF LoopGoesOn(reply.response, n_requests + 1)
       THEN /\ response' = reply.response
            /\ block' = 1
            /\ assistant_messages_so_far' = <<>>
            /\ tool_results_for_claude' = <<>>
            /\ calls' = <<>>
            /\ pc' = "dispatch"
            /\ UNCHANGED response_text
       ELSE /\ response' = reply.response
            /\ response_text' = FinalResponse(reply.response.content)
            /\ pc' = "return"
            /\ UNCHANGED <<block, assistant_messages_so_far, tool_results_for_claude, calls>>

\* Variant: the history is kept on the client and each query adds to it.
InitialMessagesKept(query) == earlier_turns \o <<UserMessage(query)>>

\* client.py 166-168: messages is a local, made anew for every query
InitialMessages(query) == <<UserMessage(query)>>

\* chat_loop 316-337 with process_query 150-177: one line of input
ReadInput ==
    /\ pc = "chat_loop"
    /\ \E input \in UserInputs :
          IF input \in {"quit", "exit", "KeyboardInterrupt", "EOFError"}
          THEN /\ pc' = "finally"
               /\ UNCHANGED queryvars
          ELSE IF input = ""
          THEN UNCHANGED <<pc, queryvars>>
          ELSE IF ~connected
          THEN /\ response_text' = <<"error", "not connected">>
               /\ pc' = "return"
               /\ UNCHANGED <<messages, response, block, assistant_messages_so_far,
                              tool_results_for_claude, calls, last_request, n_requests,
                              api_error>>
          ELSE \E reply \in ModelReplies(1) : AfterModelCall(InitialMessages(input), reply)
    /\ UNCHANGED <<regvars, clientvars, github_connected, actions_connected, raised,
                   in_flight, earlier_turns, cleanupvars>>

\* Variant: the loop goes on without waiting for the call it made.
NothingInFlightNotAwaited == TRUE

\* client.py 212: await; process_query runs on only when the call_tool it
\* awaits has completed
NothingInFlight == in_flight = <<>>

\* client.py 202-207: the block is a tool request whose name the registry knows
IsRegisteredToolUse(content_block) ==
    /\ content_block.type = "tool_use"
    /\ get_tool_call_details(content_block.name) # NotFound

\* client.py 187-200, 249-260: one content block of the response that makes no
\* call: a text block, or a request for a tool the registry does not know
DispatchBlock ==
    /\ pc = "dispatch"
    /\ block <= Len(response.content)
    /\ NothingInFlight
    /\ ~IsRegisteredToolUse(response.content[block])
    /\ LET content_block == response.content[block]
       IN  /\ assistant_messages_so_far' = Append(assistant_messages_so_far, content_block)
           /\ IF content_block.type # "tool_use"
              THEN UNCHANGED tool_results_for_claude
              ELSE tool_results_for_claude' =
                          Append(tool_results_for_claude, UnknownToolResult(content_block))
    /\ block' = block + 1
    /\ UNCHANGED <<regvars, clientvars, mainvars, messages, response, response_text,
                   calls, last_request, n_requests, api_error, in_flight, earlier_turns,
                   cleanupvars>>

\* client.py 187-212: a request for a registered tool; call_tool is sent to the
\* session and process_query is suspended
StartCall ==
    /\ pc = "dispatch"
    /\ block <= Len(response.content)
    /\ NothingInFlight
    /\ IsRegisteredToolUse(response.content[block])
    /\ LET content_block == response.content[block]
           tool_details == get_tool_call_details(content_block.name)
       IN  /\ assistant_messages_so_far' = Append(assistant_messages_so_far, content_block)
           /\ in_flight' = Append(in_flight,
                  [block |-> block, call |-> ToolCall(tool_details, content_block)])
    /\ UNCHANGED <<regvars, clientvars, mainvars, messages, response, block,
                   tool_results_for_claude, response_text, calls, last_request,
                   n_requests, api_error, earlier_turns, cleanupvars>>

\* client.py 212-247: the awaited call_tool returns or raises, and the block's
\* tool-result is built
CompleteCall ==
    /\ pc = "dispatch"
    /\ in_flight # <<>>
    /\ LET content_block == response.content[Head(in_flight).block]
       IN  \E outcome \in ToolOutcomes :
              /\ calls' = Append(calls,
                     [block |-> Head(in_flight).block, call |-> Head(in_flight).call,
                      outcome |-> outcome])
              /\ tool_results_for_claude' = Append(tool_results_for_claude,
                     ToolResultMessage(content_block.id,
                         ToolCallResult(outcome, content_block.name).content,
                         ToolCallResult(outcome, content_block.name).is_error))
    /\ in_flight' = Tail(in_flight)
    /\ block' = block + 1
    /\ UNCHANGED <<regvars, clientvars, mainvars, messages, response,
                   assistant_messages_so_far, response_text, last_request, n_requests,
                   api_error, earlier_turns, cleanupvars>>

\* client.py 262-274: the round's turns are appended and the next request sent
FinishRound ==
    /\ pc = "dispatch"
    /\ block > Len(response.content)
    /\ NothingInFlight
    /\ \E reply \in ModelReplies(Len(RoundMessages)) : AfterModelCall(RoundMessages, reply)
    /\ UNCHANGED <<regvars, clientvars, github_connected, actions_connected, raised,
                   in_flight, earlier_turns, cleanupvars>>

\* chat_loop 326-330: process_query has returned; its locals are gone
Return ==
    /\ pc = "return"
    /\ pc' = "chat_loop"
    /\ messages' = <<>>
    /\ response' = NoResponse
    /\ block' = 0
    /\ assistant_messages_so_far' = <<>>
    /\ tool_results_for_claude' = <<>>
    /\ response_text' = NoAnswer
    /\ calls' = <<>>
    /\ last_request' = NoRequest
    /\ n_requests' = 0
    /\ api_error' = "none"
    /\ in_flight' = <<>>
    /\ earlier_turns' = IF messages = <<>> THEN earlier_turns ELSE <<messages[1]>>
    /\ UNCHANGED <<regvars, clientvars, github_connected, actions_connected, raised,
                   cleanupvars>>

(***************************************************************************)
(* cleanup, from main's finally.                                           *)
(***************************************************************************)
\* Variant: the contexts are exited oldest first.
NextToExitOldest(stack) == 1

\* cleanup 349-352, AsyncExitStack.aclose: the context entered last is exited first

NextToExit(stack) == Len(stack)

Without(stack, i) == SubSeq(stack, 1, i - 1) \o SubSeq(stack, i + 1, Len(stack))

\* main 379-381, cleanup 346-348
EnterCleanup ==
    /\ pc = "finally"
    /\ pc' = "aclose"
    /\ cleanup_runs' = cleanup_runs + 1
    /\ UNCHANGED <<regvars, clientvars, github_connected, actions_connected, raised,
                   queryvars, release_log, release_failed>>

\* cleanup 352: aclose exits one context; the exit may raise, and aclose goes on
ExitContext ==
    /\ pc = "aclose"
    /\ exit_stack # <<>>
    /\ release_log' = Append(release_log, exit_stack[NextToExit(exit_stack)])
    /\ exit_stack' = Without(exit_stack, NextToExit(exit_stack))
    /\ \E exit_raises \in BOOLEAN : release_failed' = (release_failed \/ exit_raises)
    /\ UNCHANGED <<regvars, sessions, connected, acquired, catalogs, mainvars, queryvars,
                   cleanup_runs>>

\* cleanup 352-355: aclose re-raises what an exit raised, and the rest of
\* cleanup is skipped; otherwise the flag is cleared and the record emptied
CleanupReturn ==
    /\ pc = "aclose"
    /\ exit_stack = <<>>
    /\ IF release_failed
       THEN /\ raised' = "Exception"
            /\ UNCHANGED <<connected, sessions>>
       ELSE /\ connected' = FALSE
            /\ sessions' = <<>>
            /\ UNCHANGED raised
    /\ pc' = "exited"
    /\ UNCHANGED <<regvars, exit_stack, acquired, catalogs, github_connected,
                   actions_connected, queryvars, cleanupvars>>

Next ==
    \/ ConnectGithub
    \/ ConnectActions
    \/ ConnectSummary
    \/ ReadInput
    \/ DispatchBlock
    \/ StartCall
    \/ CompleteCall
    \/ FinishRound
    \/ Return
    \/ EnterCleanup
    \/ ExitContext
    \/ CleanupReturn

Spec == Init /\ [][Next]_vars

Register ==
    /\ Len(registered) < MaxRegistrations
    /\ \E session_prefix \in Prefixes, session \in Sessions, tools \in ToolLists :
           add_session(session_prefix, session, tools)
    /\ UNCHANGED <<clientvars, mainvars, queryvars, cleanupvars>>

SpecRegistry == Init /\ [][Register]_vars

\* process_query runs on: a coroutine that can take its next step takes it,
\* an awaited call_tool returns or raises, and messages.create returns or
\* raises.
QueryRunsOn ==
    /\ WF_vars(DispatchBlock)
    /\ WF_vars(StartCall)
    /\ WF_vars(CompleteCall)
    /\ WF_vars(FinishRound)

\* connect_to_servers has returned with both backends live, each listing
\* one tool; main is about to enter chat_loop
InitConnected ==
    /\ tool_definitions_for_claude =
           DefinitionsAfter(DefinitionsAfter(<<>>, github, <<list_repos>>),
                            actions, <<list_repos>>)
    /\ tool_mapping =
           MappingAfter(MappingAfter(<<>>, github, SessionHandle(github), <<list_repos>>),
                        actions, SessionHandle(actions), <<list_repos>>)
    /\ registered =
           <<[prefix |-> github, session |-> SessionHandle(github), tools |-> <<list_repos>>],
             [prefix |-> actions, session |-> SessionHandle(actions), tools |-> <<list_repos>>]>>
    /\ exit_stack = <<Transport(github), Session(github), Transport(actions), Session(actions)>>
    /\ sessions = DictSet(DictSet(<<>>, github, SessionHandle(github)),
                          actions, SessionHandle(actions))
    /\ connected = TRUE
    /\ pc = "chat_loop"
    /\ github_connected = "True"
    /\ actions_connected = "True"
    /\ raised = "none"
    /\ messages = <<>>
    /\ response = NoResponse
    /\ block = 0
    /\ assistant_messages_so_far = <<>>
    /\ tool_results_for_claude = <<>>
    /\ response_text = NoAnswer
    /\ acquired = exit_stack
    /\ catalogs = DictSet(DictSet(<<>>, github, <<list_repos>>), actions, <<list_repos>>)
    /\ calls = <<>>
    /\ last_request = NoRequest
    /\ n_requests = 0
    /\ api_error = "none"
    /\ in_flight = <<>>
    /\ earlier_turns = <<>>
    /\ release_log = <<>>
    /\ release_failed = FALSE
    /\ cleanup_runs = 0

\* chat_loop and process_query, up to the input that ends the loop
NextQuery ==
    \/ ReadInput
    \/ DispatchBlock
    \/ StartCall
    \/ CompleteCall
    \/ FinishRound
    \/ Return

SpecQuery == InitConnected /\ [][NextQuery]_vars /\ QueryRunsOn

(***************************************************************************)
(* The final answer of process_query, on final responses of every shape.   *)
(***************************************************************************)
MaxFinalBlocks == 3

\* The content blocks a response that ends the loop may hold: text, blank
\* text, and a tool request left in a response cut short (stop_reason
\* "max_tokens").
FinalBlocks ==
    {TextBlock(<<"o", "k">>), TextBlock(<<"a">>), TextBlock(<<" ">>),
     ToolUseBlock(PrefixedName(github, list_repos), [owner |-> "a"], "call_1")}

FinalResponses ==
    {[stop_reason |-> IF ToolUseIndexes(c) = {} THEN "end_turn" ELSE "max_tokens",
      content |-> c] : c \in SeqsUpTo(FinalBlocks, MaxFinalBlocks)}

\* client.py 180, 277: the loop has ended on a response that is not tool_use
InitFinalResponse ==
    /\ RegistryInit
    /\ exit_stack = <<>>
    /\ sessions = <<>>
    /\ connected = TRUE
    /\ pc = "final_response"
    /\ github_connected = "unset"
    /\ actions_connected = "unset"
    /\ raised = "none"
    /\ messages = <<>>
    /\ response \in FinalResponses
    /\ block = 0
    /\ assistant_messages_so_far = <<>>
    /\ tool_results_for_claude = <<>>
    /\ response_text = NoAnswer
    /\ acquired = <<>>
    /\ catalogs = <<>>
    /\ calls = <<>>
    /\ last_request = NoRequest
    /\ n_requests = 1
    /\ api_error = "none"
    /\ in_flight = <<>>
    /\ earlier_turns = <<>>
    /\ release_log = <<>>
    /\ release_failed = FALSE
    /\ cleanup_runs = 0

\* client.py 277-291
FinalAnswer ==
    /\ pc = "final_response"
    /\ response_text' = FinalResponse(response.content)
    /\ pc' = "return"
    /\ UNCHANGED <<regvars, clientvars, github_connected, actions_connected, raised,
                   messages, response, block, assistant_messages_so_far,
                   tool_results_for_claude, calls, last_request, n_requests, api_error,
                   in_flight, earlier_turns, cleanupvars>>

SpecFinalResponse == InitFinalResponse /\ [][FinalAnswer]_vars

(***************************************************************************)
(* Properties.                                                             *)
(***************************************************************************)
Reverse(s) == [k \in 1..Len(s) |-> s[Len(s) + 1 - k]]

\* The tool-invocation blocks among the first k blocks of the response.
ToolUsesUpTo(k) == {j \in ToolUseIndexes(response.content) : j <= k}

\* The tool-result block built for block k of the response.
ResultOfBlock(k) == tool_results_for_claude[Cardinality(ToolUsesUpTo(k))].content[1]

CallsOfBlock(k) == {i \in 1..Len(calls) : calls[i].block = k}

Registrations == 1..Len(registered)

\* C1: when the prefixes of the registrations are pairwise distinct, resolving
\* the prefixed identifier of any registered tool gives that tool's original
\* identifier and the connection it was registered with.
C1_ResolveReturnsRegisteredPair ==
    (\A i, j \in Registrations : registered[i].prefix = registered[j].prefix => i = j)
    => \A i \in Registrations : \A k \in 1..Len(registered[i].tools) :
          get_tool_call_details(PrefixedName(registered[i].prefix, registered[i].tools[k]))
              = <<registered[i].tools[k].name, registered[i].session>>

\* C2: every call_tool of a round goes to the connection the registry maps the
\* requested name to, which is the session of the backend that listed the
\* tool, with the original identifier and the model's arguments; a block is
\* called at most once and only tool-invocation blocks are called.
C2_CallsAreRouted ==
    pc = "dispatch" =>
        /\ \A i \in 1..Len(calls) :
              LET content_block == response.content[calls[i].block]
              IN  /\ calls[i].block < block
                  /\ content_block.type = "tool_use"
                  /\ content_block.name \in DOMAIN tool_mapping
                  /\ calls[i].call.name = tool_mapping[content_block.name][1]
                  /\ calls[i].call.session = tool_mapping[content_block.name][2]
                  /\ calls[i].call.arguments = content_block.input
                  /\ \E prefix \in DOMAIN catalogs : \E k \in 1..Len(catalogs[prefix]) :
                        /\ calls[i].call.session = SessionHandle(prefix)
                        /\ calls[i].call.name = catalogs[prefix][k].name
                        /\ content_block.name = PrefixedName(prefix, catalogs[prefix][k])
        /\ \A i, j \in 1..Len(calls) : i < j => calls[i].block < calls[j].block

C2_TwoBackendsCalled ==
    /\ pc = "dispatch"
    /\ Len(calls) = 2
    /\ calls[1].call.session = SessionHandle(actions)
    /\ calls[2].call.session = SessionHandle(github)

\* C3: a tool-invocation block whose name is not in the registry gets an error
\* tool-result with its correlation id and no call_tool; the blocks around it
\* are processed all the same (one result per tool-invocation block so far, a
\* call for every registered one).
C3_UnknownToolGetsErrorResult ==
    pc = "dispatch" =>
        /\ Len(tool_results_for_claude) = Cardinality(ToolUsesUpTo(block - 1))
        /\ \A k \in ToolUsesUpTo(block - 1) :
              IF response.content[k].name \in DOMAIN tool_mapping
              THEN CallsOfBlock(k) # {}
              ELSE /\ ResultOfBlock(k).type = "tool_result"
                   /\ ResultOfBlock(k).is_error
                   /\ ResultOfBlock(k).tool_use_id = response.content[k].id
                   /\ CallsOfBlock(k) = {}

C3_UnknownThenCalled ==
    /\ pc = "dispatch"
    /\ block = 3
    /\ response.content[1].type = "tool_use"
    /\ response.content[1].name = hallucinated
    /\ Len(calls) = 1
    /\ ~ResultOfBlock(2).is_error

RaisedCalls == {i \in 1..Len(calls) : calls[i].outcome.kind = "raises"}

\* C4: a call_tool that raises yields an error tool-result with the block's id
\* and the failure description, nothing leaves process_query, the blocks after
\* it still get their results, and the round ends with the next request to the
\* model.
C4_StateAfterRaise ==
    (pc = "dispatch" /\ RaisedCalls # {}) =>
        /\ raised = "none"
        /\ Len(tool_results_for_claude) = Cardinality(ToolUsesUpTo(block - 1))
        /\ \A k \in ToolUsesUpTo(block - 1) :
              response.content[k].name \in DOMAIN tool_mapping => CallsOfBlock(k) # {}
        /\ \A i \in RaisedCalls :
              LET result == ResultOfBlock(calls[i].block)
              IN  /\ result.is_error
                  /\ result.tool_use_id = response.content[calls[i].block].id
                  /\ result.content.value[Len(result.content.value)] = calls[i].outcome.error

C4_RaisingToolStaysInLoop ==
    [][/\ C4_StateAfterRaise'
       /\ (pc = "dispatch" /\ RaisedCalls # {}) => pc' \in {"dispatch", "return"}
       /\ (pc = "dispatch" /\ RaisedCalls # {} /\ block > Len(response.content)) =>
              /\ n_requests' = n_requests + 1
              /\ last_request'.messages = RoundMessages]_vars

C4_RaiseThenNextRequest ==
    /\ pc = "return"
    /\ n_requests = 2
    /\ Len(calls) = 2
    /\ calls[1].outcome.kind = "raises"
    /\ calls[2].outcome.kind = "returns"
    /\ response_text[1] = "answer"

\* The correlation ids of the tool-result blocks of a sequence of turns.
RECURSIVE ResultIds(_)
ResultIds(turns) ==
    IF turns = <<>> THEN <<>>
    ELSE [k \in 1..Len(Head(turns).content) |-> Head(turns).content[k].tool_use_id]
         \o ResultIds(Tail(turns))

ToolUseIds(content) ==
    LET uses == SelectSeq(content, LAMBDA b : b.type = "tool_use")
    IN  [k \in 1..Len(uses) |-> uses[k].id]

\* C5: the tool-results a round appends to the history after the assistant
\* turn carry the correlation ids of the tool-invocation blocks of the
\* response, one each, in the order the model emitted them.
C5_ResultsEchoIdsInOrder ==
    [][(pc = "dispatch" /\ block > Len(response.content)) =>
          /\ Len(messages') > Len(messages)
          /\ SubSeq(messages', 1, Len(messages)) = messages
          /\ ResultIds(SubSeq(messages', Len(messages) + 2, Len(messages')))
                 = ToolUseIds(response.content)]_vars

C5_UnknownAndFailedEchoed ==
    /\ pc = "return"
    /\ Len(messages) = 4
    /\ messages[3].content[1].tool_use_id = "call_3"
    /\ messages[4].content[1].tool_use_id = "call_1"
    /\ messages[4].content[1].is_error

\* C6: every round adds two turns to the history, the assistant turn with the
\* blocks of the response and one user turn with all the round's tool-results:
\* the history of request n has 2n - 1 turns.
C6_RoundAppendsTwoTurns ==
    n_requests >= 2 =>
        /\ Len(last_request.messages) = 2 * n_requests - 1
        /\ last_request.messages[2].role = "assistant"
        /\ last_request.messages[3].role = "user"
        /\ ResultIds(<<last_request.messages[3]>>) = ToolUseIds(last_request.messages[2].content)

Results == {"True", "False"}

Succeeded ==
    {prefix \in {github, actions} :
        (prefix = github /\ github_connected = "True")
        \/ (prefix = actions /\ actions_connected = "True")}

CatalogNames(prefix) ==
    {PrefixedName(prefix, catalogs[prefix][k]) : k \in 1..Len(catalogs[prefix])}

\* C7, on the states after both attempts: each attempt has returned, success
\* exactly for the backends whose catalog was listed, and the registry holds
\* exactly the tools of those backends, each mapped to its backend's session.
C7_RegistryOfSucceeded ==
    pc \notin {"connect_github", "connect_actions"} =>
        /\ github_connected \in Results
        /\ actions_connected \in Results
        /\ Succeeded = DOMAIN catalogs
        /\ DOMAIN tool_mapping = UNION {CatalogNames(prefix) : prefix \in Succeeded}
        /\ {tool_definitions_for_claude[k].name : k \in 1..Len(tool_definitions_for_claude)}
               = DOMAIN tool_mapping
        /\ \A name \in DOMAIN tool_mapping :
              \E prefix \in Succeeded : tool_mapping[name][2] = SessionHandle(prefix)

\* C7: an attempt, failed or not, raises nothing and is followed by the
\* attempt of the other backend, and when an attempt succeeded the connect
\* phase ends connected, in the chat loop.
C7_FailedBackendDoesNotStopConnect ==
    [][/\ C7_RegistryOfSucceeded'
       /\ pc = "connect_github" => (pc' = "connect_actions" /\ raised' = "none")
       /\ pc = "connect_actions" => (pc' = "connect_summary" /\ raised' = "none")
       /\ (pc = "connect_summary" /\ Succeeded # {}) =>
              (connected' /\ pc' = "chat_loop" /\ raised' = "none")]_vars

C7_GithubFailedActionsServes ==
    /\ pc = "chat_loop"
    /\ github_connected = "False"
    /\ actions_connected = "True"
    /\ Len(acquired) = 4
    /\ DOMAIN tool_mapping = {PrefixedName(actions, list_repos)}

\* C8: with no backend live after the attempts, connect_to_servers exits the
\* process: main goes to its finally and never to the chat loop, no query is
\* processed; and the exit is decided only when both attempts have failed.
C8_NoBackendIsFatal ==
    /\ raised = "SystemExit" => (github_connected = "False" /\ actions_connected = "False")
    /\ (github_connected = "False" /\ actions_connected = "False" /\ pc # "connect_summary") =>
          /\ pc \in {"finally", "aclose", "exited"}
          /\ raised \in {"SystemExit", "Exception"}
          /\ ~connected
          /\ n_requests = 0
          /\ messages = <<>>
          /\ response_text = NoAnswer

C8_ExitedWithoutBackend ==
    /\ pc = "exited"
    /\ raised = "SystemExit"
    /\ Len(release_log) = 3

\* C9: cleanup exits the contexts in the reverse of the order in which they
\* were entered: what is released so far, followed by what is still held from
\* the newest down, is the acquisition order reversed.
C9_ReleaseInReverseOrder ==
    /\ pc \in {"aclose", "exited"} => release_log \o Reverse(exit_stack) = Reverse(acquired)
    /\ pc = "exited" =>
          \A i, j \in 1..Len(acquired) : i < j =>
             \E m, n \in 1..Len(release_log) :
                m < n /\ release_log[m] = acquired[j] /\ release_log[n] = acquired[i]

C9_FourReleased ==
    /\ pc = "exited"
    /\ Len(release_log) = 4
    /\ release_log[1] = Session(actions)
    /\ release_log[4] = Transport(github)

\* C10: cleanup tolerates a failing release: it has attempted every release
\* and returns normally, the connected flag cleared and the session record
\* emptied.
C10_CleanupCompletes ==
    pc = "exited" =>
        /\ Len(release_log) = Len(acquired)
        /\ raised # "Exception"
        /\ ~connected
        /\ sessions = <<>>

\* C11: cleanup is called exactly once on every way out of main, and before
\* the process exits: it has not run before main's finally is reached, it has
\* run once while the contexts are exited and once when the process has
\* exited, whether main was left by quit, interrupt or end of input, by
\* sys.exit with no backend live, or with an exception.
C11_CleanupExactlyOnce ==
    /\ cleanup_runs <= 1
    /\ pc \in {"aclose", "exited"} => cleanup_runs = 1
    /\ pc \notin {"aclose", "exited"} => cleanup_runs = 0 /\ release_log = <<>>
    /\ pc = "exited" => raised \in {"none", "SystemExit", "Exception"}

C11_ExitedAfterQuit ==
    /\ pc = "exited"
    /\ cleanup_runs = 1
    /\ raised = "none"
    /\ github_connected = "True"
    /\ actions_connected = "False"

\* C12: a request to the model API that raises, the first of a query or a
\* later one, ends the query with an error text as its answer; nothing is
\* raised out of main's try block and cleanup is not run, and from there the
\* chat loop is back at its prompt with the client connected and the registry,
\* the exit stack and the sessions as they were.
C12_ApiErrorIsAnswered ==
    /\ [](api_error # "none" =>
            /\ pc = "return"
            /\ Len(response_text) = 2
            /\ response_text[1] = "error"
            /\ response_text[2] = api_error
            /\ raised = "none"
            /\ cleanup_runs = 0
            /\ connected)
    /\ [][pc = "return" =>
            /\ pc' = "chat_loop"
            /\ raised' = "none"
            /\ cleanup_runs' = 0
            /\ connected'
            /\ UNCHANGED <<regvars, exit_stack, sessions>>]_vars

C12_LaterRequestFailed ==
    /\ pc = "return"
    /\ api_error = "overloaded"
    /\ n_requests = 2
    /\ Len(messages) = 3

\* The text segments of the response, in order.
TextSegments ==
    LET at == {k \in 1..Len(response.content) : response.content[k].type = "text"}
        nth(i) == CHOOSE k \in at : Cardinality({j \in at : j < k}) = i - 1
    IN  [i \in 1..Cardinality(at) |-> response.content[nth(i)].text]

RECURSIVE Concatenation(_)
Concatenation(parts) ==
    IF parts = <<>> THEN <<>> ELSE Head(parts) \o Concatenation(Tail(parts))

\* C13, as stated: the answer to a final response is the concatenation of its
\* text segments in order, and the sentinel exactly when it has none.
C13_AnswerIsConcatenation ==
    pc = "return" =>
        /\ response_text[1] = "answer"
        /\ IF TextSegments = <<>>
           THEN response_text[2] = NoFinalText
           ELSE response_text[2] = Concatenation(TextSegments)

\* Where segment k starts in the segments laid out with one character between
\* two neighbours, less one.
RECURSIVE SegmentOffset(_)
SegmentOffset(k) ==
    IF k = 1 THEN 0 ELSE SegmentOffset(k - 1) + Len(TextSegments[k - 1]) + 1

LaidOutLen ==
    IF TextSegments = <<>> THEN 0
    ELSE SegmentOffset(Len(TextSegments)) + Len(TextSegments[Len(TextSegments)])

\* The character at position p of the layout: of a segment, or the newline
\* between two segments.
LaidOutChar(p) ==
    IF \E k \in 1..Len(TextSegments) :
          p > SegmentOffset(k) /\ p <= SegmentOffset(k) + Len(TextSegments[k])
    THEN LET k == CHOOSE j \in 1..Len(TextSegments) :
                     p > SegmentOffset(j) /\ p <= SegmentOffset(j) + Len(TextSegments[j])
         IN  TextSegments[k][p - SegmentOffset(k)]
    ELSE "\n"

Visible == {p \in 1..LaidOutLen : LaidOutChar(p) \notin Whitespace}

\* C13, amended: the answer to a final response is its text segments in order
\* with a newline between two neighbours, from the first character that is
\* not whitespace to the last one; the sentinel is returned exactly when there
\* is no such character, which is the case with no text segments and with
\* blank ones.
C13_AnswerIsJoinedAndStripped ==
    pc = "return" =>
        /\ response_text[1] = "answer"
        /\ IF Visible = {}
           THEN response_text[2] = NoFinalText
           ELSE LET lo == CHOOSE p \in Visible : \A q \in Visible : p <= q
                    hi == CHOOSE p \in Visible : \A q \in Visible : p >= q
                IN  response_text[2] = [p \in 1..(hi - lo + 1) |-> LaidOutChar(lo + p - 1)]

C13_BlankThenTwoSegments ==
    /\ pc = "return"
    /\ Len(response.content) = 3
    /\ response.content[1] = TextBlock(<<" ">>)
    /\ response_text[2] = <<"a", "\n", "o", "k">>

\* The tools registered so far, as pairs of a registration and a position in
\* its tool list, and the prefixed name each was registered under.
RegisteredTools ==
    UNION {{<<i, k>> : k \in 1..Len(registered[i].tools)} : i \in Registrations}

NameOf(t) == PrefixedName(registered[t[1]].prefix, registered[t[1]].tools[t[2]])

Later(t, u) == u[1] > t[1] \/ (u[1] = t[1] /\ u[2] > t[2])

\* C14: a registration whose prefixed identifier is already in the mapping is
\* made all the same and takes the identifier over: every prefixed identifier
\* registered resolves, and it resolves to the original identifier and the
\* connection of the tool registered under it last, not to an earlier one.
C14_LastRegistrationWins ==
    \A t \in RegisteredTools :
        /\ get_tool_call_details(NameOf(t)) # NotFound
        /\ (\A u \in RegisteredTools : NameOf(u) = NameOf(t) => ~Later(t, u))
              => get_tool_call_details(NameOf(t))
                    = <<registered[t[1]].tools[t[2]].name, registered[t[1]].session>>

C14_IdentifierTakenOver ==
    /\ Len(registered) = 2
    /\ registered[1].prefix = <<"a">>
    /\ registered[1].tools = <<b_list_repos>>
    /\ registered[1].session = SessionHandle(github)
    /\ registered[2].prefix = <<"a", "_", "b">>
    /\ registered[2].tools = <<list_repos>>
    /\ registered[2].session = SessionHandle(actions)
    /\ get_tool_call_details(<<"a", "_", "b", "_", "x">>)
          = <<list_repos.name, SessionHandle(actions)>>

NoTwoToolsShareAName ==
    \A t, u \in RegisteredTools : NameOf(t) = NameOf(u) => t = u

CatalogEntriesNamed(name) ==
    {n \in 1..Len(tool_definitions_for_claude) : tool_definitions_for_claude[n].name = name}

\* C15: when no two registered tools have the same prefixed identifier, the
\* names of the catalog are the keys of the mapping, every key names exactly
\* one catalog entry, and the catalog has as many entries as the mapping has
\* keys.
C15_CatalogMatchesMapping ==
    NoTwoToolsShareAName =>
        /\ \A n \in 1..Len(tool_definitions_for_claude) :
              tool_definitions_for_claude[n].name \in get_available_tool_names
        /\ \A name \in get_available_tool_names :
              Cardinality(CatalogEntriesNamed(name)) = 1
        /\ Len(tool_definitions_for_claude) = Cardinality(get_available_tool_names)

C15_FourToolsFourKeys ==
    /\ NoTwoToolsShareAName
    /\ Len(registered) = 2
    /\ Len(tool_definitions_for_claude) = 4
    /\ Cardinality(get_available_tool_names) = 4

\* C16: once cleanup has run to its end, the registry is empty: no name
\* resolves and the catalog is the empty sequence. (Stated for a cleanup in
\* which no exit raised.)
C16_RegistryEmptyAfterCleanup ==
    (pc = "exited" /\ ~release_failed) =>
        /\ get_available_tool_names = {}
        /\ get_all_tools_for_claude = <<>>
        /\ get_tool_call_details(PrefixedName(github, list_repos)) = NotFound
        /\ get_tool_call_details(PrefixedName(actions, list_repos)) = NotFound

\* The number of tools registered before registration i.
RECURSIVE ToolsBefore(_)
ToolsBefore(i) == IF i = 1 THEN 0 ELSE ToolsBefore(i - 1) + Len(registered[i - 1].tools)

\* C19: the catalog holds one entry per registered tool, in the order of the
\* registrations and, within one, of its tool list; a registration leaves the
\* entries already there as they are and adds its own after them.
C19_CatalogInRegistrationOrder ==
    /\ [](/\ Len(get_all_tools_for_claude) = ToolsBefore(Len(registered) + 1)
          /\ \A t \in RegisteredTools :
                LET entry == get_all_tools_for_claude[ToolsBefore(t[1]) + t[2]]
                IN  /\ entry.name = NameOf(t)
                    /\ entry.input_schema = registered[t[1]].tools[t[2]].inputSchema)
    /\ [][/\ Len(tool_definitions_for_claude') >= Len(tool_definitions_for_claude)
           /\ SubSeq(tool_definitions_for_claude', 1, Len(tool_definitions_for_claude))
                 = tool_definitions_for_claude
           /\ Len(tool_definitions_for_claude')
                 = Len(tool_definitions_for_claude)
                     + Len(registered'[Len(registered')].tools)]_vars

C19_ThreeEntriesInOrder ==
    /\ Len(registered) = 2
    /\ registered[1].prefix = <<"b">>
    /\ registered[1].tools = <<b_list_repos, list_repos>>
    /\ registered[2].prefix = <<"a">>
    /\ registered[2].tools = <<list_repos>>
    /\ get_all_tools_for_claude[1].name = <<"b", "_", "b", "_", "x">>
    /\ get_all_tools_for_claude[2].name = <<"b", "_", "x">>
    /\ get_all_tools_for_claude[3].name = <<"a", "_", "x">>

\* The backends whose list_tools returned no tool.
ZeroToolBackends == {prefix \in DOMAIN catalogs : catalogs[prefix] = <<>>}

AttemptResult(prefix) == IF prefix = github THEN github_connected ELSE actions_connected

RegisteredToolUses ==
    {k \in ToolUseIndexes(response.content) :
        response.content[k].name \in get_available_tool_names}

\* C18: at most one call_tool is awaited at a time, and it is the call of the
\* block process_query stands at; calls are made in the order of the blocks; a
\* call is sent only when every call for an earlier block has completed, and
\* a request goes to the model only when no call is awaited and every
\* registered tool request of the round has had its call completed.
C18_CallsOneAtATime ==
    /\ [](/\ Len(in_flight) <= 1
          /\ in_flight # <<>> =>
                /\ pc = "dispatch"
                /\ in_flight[1].block = block
                /\ \A k \in RegisteredToolUses : k < block => CallsOfBlock(k) # {}
          /\ \A i, j \in 1..Len(calls) : i < j => calls[i].block < calls[j].block)
    /\ [][(in_flight' # in_flight /\ in_flight' # <<>>) =>
              /\ in_flight = <<>>
              /\ \A i \in 1..Len(calls) : calls[i].block < in_flight'[1].block]_vars
    /\ [][n_requests' = n_requests + 1 =>
              /\ in_flight = <<>>
              /\ in_flight' = <<>>
              /\ pc = "dispatch" =>
                    /\ \A k \in RegisteredToolUses : CallsOfBlock(k) # {}
                    /\ Len(tool_results_for_claude)
                          = Cardinality(ToolUseIndexes(response.content))]_vars

C18_SecondCallAwaited ==
    /\ pc = "dispatch"
    /\ Len(in_flight) = 1
    /\ in_flight[1].block = 2
    /\ Len(calls) = 1
    /\ calls[1].block = 1

\* C20: from the prompt to the return of process_query no step changes the
\* registry's mapping or catalog or the exit stack, whatever the round holds
\* (unknown tools, raising tools, a raising model API); every request carries
\* the catalog as the registry has it, the same as the request before it.
C20_QueryLeavesSharedStateAlone ==
    [][(pc = "chat_loop" \/ pc = "dispatch" \/ pc = "return") =>
          /\ UNCHANGED <<tool_mapping, tool_definitions_for_claude, exit_stack>>
          /\ n_requests' = n_requests + 1 =>
                /\ last_request'.tools = tool_definitions_for_claude
                /\ n_requests >= 1 => last_request'.tools = last_request.tools]_vars

C20_SecondRequestAfterFailures ==
    /\ pc = "return"
    /\ n_requests = 2
    /\ api_error = "overloaded"
    /\ Len(tool_results_for_claude) = 2
    /\ Len(calls) = 1
    /\ calls[1].outcome.kind = "raises"
    /\ last_request.tools = tool_definitions_for_claude
    /\ Len(last_request.tools) = 2

SameTurn(m, n) == m.role = n.role /\ m.content = n.content

\* C21: the history of every request starts with the user's query, and the
\* history of a request after the first of a query is the history of the
\* request before it, turn for turn, with at least one turn added.
C21_HistoryIsAppendOnly ==
    [][n_requests' = n_requests + 1 =>
          /\ last_request'.messages[1].role = "user"
          /\ last_request'.messages[1].content \in UserInputs
          /\ n_requests >= 1 =>
                /\ Len(last_request'.messages) > Len(last_request.messages)
                /\ \A k \in 1..Len(last_request.messages) :
                      SameTurn(last_request'.messages[k], last_request.messages[k])]_vars

C21_SecondRequestExtendsFirst ==
    /\ n_requests = 2
    /\ Len(last_request.messages) = 4
    /\ last_request.messages[1].content = "list repos"
    /\ last_request.messages[2].role = "assistant"
    /\ Len(last_request.messages[2].content) = 2

C23_FailedAttemptHoldsNothing ==
    \A prefix \in {github, actions} :
        AttemptResult(prefix) = "False" =>
            \A k \in 1..Len(exit_stack) : exit_stack[k].prefix # prefix

\* C24: the tool-result of a call_tool that returned is built in one of three
\* ways: a payload of a basic type is passed on as it is, not as an error; any
\* other payload is replaced by its str(), not as an error; and when that
\* str() raises the content is a text naming the type, as an error. A
\* tool-result is an error only for an unknown tool, a call that raised, or
\* such a failed str().
C24_ResultBuiltInOneOfThreeWays ==
    pc = "dispatch" =>
        /\ \A i \in 1..Len(calls) :
              LET result == ResultOfBlock(calls[i].block)
                  payload == calls[i].outcome.content
              IN  calls[i].outcome.kind = "returns" =>
                     IF payload.type \in BasicTypes
                     THEN /\ result.is_error = FALSE
                          /\ result.content.type = payload.type
                          /\ result.content.value = payload.value
                     ELSE IF payload.printable
                     THEN /\ result.is_error = FALSE
                          /\ result.content.type = "str"
                          /\ result.content.value = <<"str", payload.value>>
                     ELSE /\ result.is_error = TRUE
                          /\ result.content.value[1] = "Error: Result object of type "
        /\ \A k \in ToolUsesUpTo(block - 1) :
              ResultOfBlock(k).is_error =>
                 \/ response.content[k].name \notin get_available_tool_names
                 \/ \E i \in CallsOfBlock(k) :
                       \/ calls[i].outcome.kind = "raises"
                       \/ /\ calls[i].outcome.content.type \notin BasicTypes
                          /\ ~calls[i].outcome.content.printable

\* C25: the first request of every query carries a history of one turn, the
\* user turn of that query, whatever was asked and answered before; and in
\* every request the turns after the first are assistant turns and
\* tool-result turns, so the request holds no user query but its own.
C25_QueryStartsFromItsOwnTurn ==
    n_requests >= 1 =>
        /\ n_requests = 1 => Len(last_request.messages) = 1
        /\ last_request.messages[1].role = "user"
        /\ last_request.messages[1].content \in UserInputs
        /\ \A k \in 2..Len(last_request.messages) :
              \/ last_request.messages[k].role = "assistant"
              \/ last_request.messages[k].content[1].type = "tool_result"

C25_SecondQuerySent ==
    /\ earlier_turns = <<UserMessage("list repos")>>
    /\ pc = "dispatch"
    /\ n_requests = 1
    /\ last_request.messages = <<UserMessage("list repos")>>
====
